---- MODULE Spec2Model ----
(***************************************************************************)
(* Model of roles/lib_utils/action_plugins/sanity_checks.py: the sanity    *)
(* check action plugin.  run() walks check_hosts in order and calls        *)
(* run_checks() on each host; run_checks() looks the host's inventory      *)
(* variables up through template_var() and applies the rules in a fixed    *)
(* order; the first exception ends the run.                                *)
(*                                                                         *)
(* Inventory values are tagged records, one tag per Python type:           *)
(*   [t |-> "none"]                 None (also: variable not defined)      *)
(*   [t |-> "bool", b |-> TRUE]     a bool                                 *)
(*   [t |-> "int",  i |-> 1]        an int                                 *)
(*   [t |-> "str",  c |-> <<..>>]   a str, as its sequence of characters   *)
(*   [t |-> "list", l |-> <<..>>]   a list of str values                   *)
(*   [t |-> "dict", major |-> 2]    ansible_python: {version: {major: n}}  *)
(*   [t |-> "idps", p |-> <<..>>]   a list of identity provider dicts      *)
(* Variable names, host names and dict keys are TLA+ strings.              *)
(***************************************************************************)
EXTENDS Integers, Sequences, FiniteSets, TLC

VARIABLES check_hosts, hostvars, pc, idx, distro, odt,
          last_checked_host, last_checked_var, lookups, rules_run,
          result, error

vars == <<check_hosts, hostvars, pc, idx, distro, odt,
          last_checked_host, last_checked_var, lookups, rules_run,
          result, error>>

----------------------------------------------------------------------------
(* Python values *)

None == [t |-> "none"]
PyBool(b) == [t |-> "bool", b |-> b]
PyInt(i) == [t |-> "int", i |-> i]
PyStr(c) == [t |-> "str", c |-> c]
PyList(l) == [t |-> "list", l |-> l]
PyDict(major) == [t |-> "dict", major |-> major]
Idps(p) == [t |-> "idps", p |-> p]

IsNone(v) == v.t = "none"
IsStr(v, c) == v.t = "str" /\ v.c = c

\* a string of n characters
Rep(n) == [i \in 1..n |-> "a"]

\* String literals of the source, as character sequences
S_origin == <<"o", "r", "i", "g", "i", "n">>
S_enterprise == <<"o", "p", "e", "n", "s", "h", "i", "f", "t", "-",
                  "e", "n", "t", "e", "r", "p", "r", "i", "s", "e">>
S_Fedora == <<"F", "e", "d", "o", "r", "a">>
S_CentOS == <<"C", "e", "n", "t", "O", "S">>
S_latest == <<"l", "a", "t", "e", "s", "t">>
S_nfs == <<"n", "f", "s">>
S_glusterfs == <<"g", "l", "u", "s", "t", "e", "r", "f", "s">>
S_bogus == <<"b", "o", "g", "u", "s">>
S_false == <<"f", "a", "l", "s", "e">>

----------------------------------------------------------------------------
(* Module constants *)

VALID_DEPLOYMENT_TYPES == <<S_origin, S_enterprise>>

NET_PLUGIN_LIST == << <<"openshift_use_openshift_sdn", TRUE>>,
                      <<"openshift_use_flannel", FALSE>>,
                      <<"openshift_use_nuage", FALSE>>,
                      <<"openshift_use_contiv", FALSE>>,
                      <<"openshift_use_calico", FALSE>>,
                      <<"openshift_use_kuryr", FALSE>> >>

STORAGE_KIND_TUPLE == <<"openshift_hosted_registry_storage_kind",
                        "openshift_loggingops_storage_kind",
                        "openshift_logging_storage_kind",
                        "openshift_metrics_storage_kind",
                        "openshift_prometheus_alertbuffer_storage_kind",
                        "openshift_prometheus_alertmanager_storage_kind",
                        "openshift_prometheus_storage_kind">>

old_keys == <<"file", "fileName", "file_name", "filename">>

HOSTNAME_VARS == <<"openshift_public_hostname", "openshift_hostname">>

MaxHostnameLen == 63
MinAuthSecretLen == 32
EncryptionSecretLens == {16, 24, 32}
FedoraPythonMajor == 3

Range(s) == {s[i] : i \in 1..Len(s)}

AllVars == {"ansible_distribution", "openshift_deployment_type", "ansible_python",
            "openshift_image_tag",
            "openshift_master_session_auth_secrets",
            "openshift_master_session_encryption_secrets",
            "openshift_enable_unsupported_configurations",
            "openshift_master_identity_providers",
            "openshift_master_manage_htpasswd"}
           \cup {NET_PLUGIN_LIST[i][1] : i \in 1..Len(NET_PLUGIN_LIST)}
           \cup Range(STORAGE_KIND_TUPLE) \cup Range(HOSTNAME_VARS)

----------------------------------------------------------------------------
(* to_bool: membership in yes_list.  In Python True == 1, so the bool True *)
(* and the int 1 are both members; a str is a member only if it is one of  *)
(* the listed spellings.                                                   *)

YesStrings == { <<"T", "r", "u", "e">>, <<"1">>, <<"t", "r", "u", "e">>,
                <<"T", "R", "U", "E">>,
                <<"Y", "e", "s">>, <<"y", "e", "s">>, <<"Y">>, <<"y">>,
                <<"Y", "E", "S">>,
                <<"o", "n">>, <<"O", "N">>, <<"O", "n">> }

to_bool(var_to_check) ==
    \/ var_to_check.t = "bool" /\ var_to_check.b
    \/ var_to_check.t = "int" /\ var_to_check.i = 1
    \/ var_to_check.t = "str" /\ var_to_check.c \in YesStrings

\* Python truthiness of a value (`not x`, `x and ...`)
Truthy(v) ==
    CASE v.t = "none" -> FALSE
      [] v.t = "bool" -> v.b
      [] v.t = "int" -> v.i # 0
      [] v.t = "str" -> Len(v.c) > 0
      [] v.t = "list" -> Len(v.l) > 0
      [] v.t = "idps" -> Len(v.p) > 0
      [] OTHER -> TRUE

----------------------------------------------------------------------------
(* The image tag regular expressions, matched with re.match (anchored at   *)
(* the start of the string).                                               *)

Digits == {"0", "1", "2", "3", "4", "5", "6", "7", "8", "9"}

\* \d* from position i: the position after the run of digits
RECURSIVE SkipDigits(_, _)
SkipDigits(s, i) ==
    IF i <= Len(s) /\ s[i] \in Digits THEN SkipDigits(s, i + 1) ELSE i

\* (\.\d+)* from position i: the position after the groups
RECURSIVE SkipDotGroups(_, _)
SkipDotGroups(s, i) ==
    IF i <= Len(s) /\ s[i] = "." /\ SkipDigits(s, i + 1) > i + 1
    THEN SkipDotGroups(s, SkipDigits(s, i + 1))
    ELSE i

\* (^v?\d+\.\d+.*)
MatchOrigin(s) ==
    LET i0 == IF Len(s) >= 1 /\ s[1] = "v" THEN 2 ELSE 1
        j == SkipDigits(s, i0)
        k == SkipDigits(s, j + 1)
    IN  /\ j > i0 /\ j <= Len(s) /\ s[j] = "."
        /\ k > j + 1

\* (^v\d+\.\d+(\.\d+)*(-\d+(\.\d+)*)?$)
MatchEnterprise(s) ==
    LET j == SkipDigits(s, 2)
        k == SkipDigits(s, j + 1)
        m == SkipDotGroups(s, k)
        n == SkipDigits(s, m + 1)
        p == SkipDotGroups(s, n)
    IN  /\ Len(s) >= 1 /\ s[1] = "v"
        /\ j > 2 /\ j <= Len(s) /\ s[j] = "."
        /\ k > j + 1
        /\ \/ m = Len(s) + 1
           \/ /\ m <= Len(s) /\ s[m] = "-"
              /\ n > m + 1
              /\ p = Len(s) + 1

\* IMAGE_TAG_REGEX[deployment_type]['re'] applied to the tag
IMAGE_TAG_REGEX(deployment_type, s) ==
    IF deployment_type = S_origin THEN MatchOrigin(s) ELSE MatchEnterprise(s)

----------------------------------------------------------------------------
(* The rules.  Each rule is an operator from the inventory and the host to *)
(* its outcome: the exception it raises ("none" when it returns), the      *)
(* message of the exception, and `looked`, the variables it passed to      *)
(* template_var, in order.                                                 *)

\* hostvars[host].get(varname), templated; None when undefined.  The
\* inventory holds resolved values: templating is the templar's work.
template_var(hv, host, varname) == hv[host][varname]

Ok(looked) ==
    [exc |-> "none", text |-> "", name |-> "", tag |-> <<>>, pairs |-> <<>>,
     looked |-> looked]

Raises(exc, text, name, tag, pairs, looked) ==
    [exc |-> exc, text |-> text, name |-> name, tag |-> tag, pairs |-> pairs,
     looked |-> looked]

check_openshift_deployment_type(hv, host) ==
    LET openshift_deployment_type ==
            template_var(hv, host, "openshift_deployment_type")
        looked == <<"openshift_deployment_type">>
    IN  IF ~(/\ openshift_deployment_type.t = "str"
             /\ openshift_deployment_type.c \in Range(VALID_DEPLOYMENT_TYPES))
        THEN Raises("AnsibleModuleError",
                    "openshift_deployment_type must be defined and one of origin, openshift-enterprise",
                    "", <<>>, <<>>, looked)
        ELSE Ok(looked)

check_python_version(hv, host, distro_) ==
    LET ansible_python == template_var(hv, host, "ansible_python")
        looked == <<"ansible_python">>
    IN  IF ansible_python.t # "dict"
        THEN \* ansible_python['version'] on None
             Raises("TypeError", "'NoneType' object is not subscriptable",
                    "", <<>>, <<>>, looked)
        ELSE IF IsStr(distro_, S_Fedora)
        THEN IF ansible_python.major # FedoraPythonMajor
             THEN Raises("AnsibleModuleError",
                         "openshift-ansible requires Python 3 for Fedora;",
                         "", <<>>, <<>>, looked)
             ELSE Ok(looked)
        ELSE \* the message is built when major != 2, and never raised
             Ok(looked)

check_image_tag_format(hv, host, openshift_deployment_type) ==
    LET openshift_image_tag == template_var(hv, host, "openshift_image_tag")
        looked == <<"openshift_image_tag">>
    IN  IF ~Truthy(openshift_image_tag) \/ IsStr(openshift_image_tag, S_latest)
        THEN Ok(looked)
        ELSE IF ~(/\ openshift_deployment_type.t = "str"
                  /\ openshift_deployment_type.c \in Range(VALID_DEPLOYMENT_TYPES))
        THEN Raises("KeyError", "IMAGE_TAG_REGEX", "", <<>>, <<>>, looked)
        ELSE IF ~IMAGE_TAG_REGEX(openshift_deployment_type.c, openshift_image_tag.c)
        THEN Raises("AnsibleModuleError",
                    IF openshift_deployment_type.c = S_origin
                    THEN "openshift_image_tag must be in the format v#.#[.#-optional.#]."
                    ELSE "openshift_image_tag must be in the format v#.#[.#[.#]].",
                    "", openshift_image_tag.c, <<>>, looked)
        ELSE Ok(looked)

\* lines 114-117: the boolean a toggle resolves to
ResolveToggle_NoDefault(res_temp, default_val) == to_bool(res_temp)

ResolveToggle(res_temp, default_val) ==
    IF IsNone(res_temp) THEN to_bool(PyBool(default_val)) ELSE to_bool(res_temp)

RECURSIVE SumBools(_)
SumBools(res) ==
    IF res = <<>> THEN 0
    ELSE (IF Head(res) THEN 1 ELSE 0) + SumBools(Tail(res))

network_plugin_check(hv, host) ==
    LET n == Len(NET_PLUGIN_LIST)
        looked == [i \in 1..n |-> NET_PLUGIN_LIST[i][1]]
        res == [i \in 1..n |->
                   ResolveToggle(template_var(hv, host, NET_PLUGIN_LIST[i][1]),
                                 NET_PLUGIN_LIST[i][2])]
    IN  IF SumBools(res) \notin {0, 1}
        THEN Raises("AnsibleModuleError", "Only one of must be true. Found:",
                    host, <<>>,
                    [i \in 1..n |-> <<NET_PLUGIN_LIST[i][1], res[i]>>],
                    looked)
        ELSE Ok(looked)

HostnameTooLong(var_value) ==
    Truthy(var_value) /\ Len(var_value.c) > MaxHostnameLen

check_hostname_vars(hv, host) ==
    LET bad == {i \in 1..Len(HOSTNAME_VARS) :
                   HostnameTooLong(template_var(hv, host, HOSTNAME_VARS[i]))}
    IN  IF bad # {}
        THEN LET first == CHOOSE i \in bad : \A j \in bad : i <= j
             IN  Raises("AnsibleModuleError", "must be 63 characters or less",
                        HOSTNAME_VARS[first], <<>>, <<>>,
                        SubSeq(HOSTNAME_VARS, 1, first))
        ELSE Ok(HOSTNAME_VARS)

\* line 153, negated: an auth secret is long enough
ValidAuthSecret_OffByOne(secret) == Len(secret.c) > MinAuthSecretLen

ValidAuthSecret(secret) == ~(Len(secret.c) < MinAuthSecretLen)

ValidEncryptionSecret(secret) == Len(secret.c) \in EncryptionSecretLens

check_session_auth_secrets(hv, host) ==
    LET sas == template_var(hv, host, "openshift_master_session_auth_secrets")
        ses == template_var(hv, host, "openshift_master_session_encryption_secrets")
        looked == <<"openshift_master_session_auth_secrets",
                    "openshift_master_session_encryption_secrets">>
    IN  IF IsNone(sas) /\ IsNone(ses)
        THEN Ok(looked)
        ELSE IF \/ ~(sas.t = "list" /\ ses.t = "list")
                \/ Len(sas.l) # Len(ses.l)
        THEN Raises("AnsibleModuleError",
                    "Expects openshift_master_session_auth_secrets and openshift_master_session_encryption_secrets are equal length lists",
                    "", <<>>, <<>>, looked)
        ELSE IF \E i \in 1..Len(sas.l) : ~ValidAuthSecret(sas.l[i])
        THEN Raises("AnsibleModuleError",
                    "Invalid secret in openshift_master_session_auth_secrets. Secrets must be at least 32 characters in length.",
                    "", <<>>, <<>>, looked)
        ELSE IF \E i \in 1..Len(ses.l) : ~ValidEncryptionSecret(ses.l[i])
        THEN Raises("AnsibleModuleError",
                    "Invalid secret in openshift_master_session_encryption_secrets. Secrets must be 16, 24, or 32 characters in length.",
                    "", <<>>, <<>>, looked)
        ELSE Ok(looked)

\* lines 175-177: the storage kinds the loop stops at
NfsKinds_FirstOnly(hv, host) ==
    {i \in {1} : IsStr(template_var(hv, host, STORAGE_KIND_TUPLE[i]), S_nfs)}

NfsKinds(hv, host) ==
    {i \in 1..Len(STORAGE_KIND_TUPLE) :
        IsStr(template_var(hv, host, STORAGE_KIND_TUPLE[i]), S_nfs)}

check_unsupported_nfs_configs(hv, host) ==
    LET enable_unsupported ==
            template_var(hv, host, "openshift_enable_unsupported_configurations")
        first_var == <<"openshift_enable_unsupported_configurations">>
        nfs == NfsKinds(hv, host)
    IN  IF to_bool(enable_unsupported)
        THEN Ok(first_var)
        ELSE IF nfs # {}
        THEN LET first == CHOOSE i \in nfs : \A j \in nfs : i <= j
             IN  Raises("AnsibleModuleError",
                        "nfs is an unsupported type for {}. openshift_enable_unsupported_configurations=True mustbe specified to continue with this configuration.",
                        STORAGE_KIND_TUPLE[first], <<>>, <<>>,
                        first_var \o SubSeq(STORAGE_KIND_TUPLE, 1, first))
        ELSE Ok(first_var \o STORAGE_KIND_TUPLE)

\* line 204: `old_key in idp is not None` is the chained comparison
\* (old_key in idp) and (idp is not None)
HasLegacyKey_AlwaysTrue(idp, old_key) == TRUE

HasLegacyKey(idp, old_key) == old_key \in idp.keys

\* the (provider, key) positions at which the loops of lines 201-204 raise
LegacyHits(idps) ==
    {h \in (1..Len(idps)) \X (1..Len(old_keys)) :
        /\ idps[h[1]].kind = "HTPasswdPasswordIdentityProvider"
        /\ HasLegacyKey(idps[h[1]], old_keys[h[2]])}

check_htpasswd_provider(hv, host) ==
    LET idps == template_var(hv, host, "openshift_master_identity_providers")
        manage_pass == template_var(hv, host, "openshift_master_manage_htpasswd")
        hits == IF idps.t = "idps" THEN LegacyHits(idps.p) ELSE {}
    IN  IF ~Truthy(idps)
        THEN Ok(<<"openshift_master_identity_providers">>)
        ELSE IF to_bool(manage_pass)
        THEN Ok(<<"openshift_master_identity_providers",
                  "openshift_master_manage_htpasswd">>)
        ELSE IF hits # {}
        THEN LET first == CHOOSE h \in hits : \A g \in hits :
                              \/ h[1] < g[1]
                              \/ h[1] = g[1] /\ h[2] <= g[2]
             IN  Raises("AnsibleModuleError",
                        "openshift_master_identity_providers contains a provider of kind==HTPasswdPasswordIdentityProvider and {} is set.",
                        old_keys[first[2]], <<>>, <<>>,
                        <<"openshift_master_identity_providers",
                          "openshift_master_manage_htpasswd">>)
        ELSE Ok(<<"openshift_master_identity_providers",
                  "openshift_master_manage_htpasswd">>)

----------------------------------------------------------------------------
(* run and run_checks as a state machine.  pc is the position in run:      *)
(* "start", then for each host "run_checks" (the lookup of line 215) and   *)
(* one position per rule, then "loop_done"; "returned" and "raised" end    *)
(* the call.  lookups and rules_run record the calls of template_var and   *)
(* of the rules, each with the position of the host in check_hosts.        *)

RULES == <<"check_openshift_deployment_type", "check_python_version",
           "check_image_tag_format", "network_plugin_check",
           "check_hostname_vars", "check_session_auth_secrets",
           "check_unsupported_nfs_configs", "check_htpasswd_provider">>

\* run_checks with two of its calls exchanged
NextRule_Swapped(position) ==
    CASE position = "run_checks" -> "check_openshift_deployment_type"
      [] position = "check_openshift_deployment_type" -> "check_python_version"
      [] position = "check_python_version" -> "check_image_tag_format"
      [] position = "check_image_tag_format" -> "check_hostname_vars"
      [] position = "check_hostname_vars" -> "network_plugin_check"
      [] position = "network_plugin_check" -> "check_session_auth_secrets"
      [] position = "check_session_auth_secrets" -> "check_unsupported_nfs_configs"
      [] position = "check_unsupported_nfs_configs" -> "check_htpasswd_provider"
      [] OTHER -> "end_of_run_checks"

\* the statement of run_checks that follows `position`
NextRule(position) ==
    CASE position = "run_checks" -> "check_openshift_deployment_type"
      [] position = "check_openshift_deployment_type" -> "check_python_version"
      [] position = "check_python_version" -> "check_image_tag_format"
      [] position = "check_image_tag_format" -> "network_plugin_check"
      [] position = "network_plugin_check" -> "check_hostname_vars"
      [] position = "check_hostname_vars" -> "check_session_auth_secrets"
      [] position = "check_session_auth_secrets" -> "check_unsupported_nfs_configs"
      [] position = "check_unsupported_nfs_configs" -> "check_htpasswd_provider"
      [] OTHER -> "end_of_run_checks"

NoResult == [changed |-> FALSE, failed |-> FALSE, msg |-> ""]

NoError ==
    [exc |-> "none", text |-> "", name |-> "", tag |-> <<>>, pairs |-> <<>>,
     rule |-> "", wrapped |-> FALSE,
     last_checked_host |-> "", last_checked_var |-> ""]

\* template_var, line 67, without the assignment
LastCheckedHost_NotRecorded(host) == last_checked_host

\* template_var, line 67
LastCheckedHost(host) == host

\* the effect on self and on the call record of looking `looked` up for host
TemplateVars(host, looked) ==
    /\ last_checked_var' = looked[Len(looked)]
    /\ last_checked_host' = LastCheckedHost(host)
    /\ lookups' = lookups \o [k \in 1..Len(looked) |->
                                 [i |-> idx, host |-> host, var |-> looked[k]]]

\* the except clause swallowing the exception: the loop goes on
Except_Continue(e, rule) ==
    /\ error' = error
    /\ IF idx < Len(check_hosts)
       THEN pc' = "run_checks" /\ idx' = idx + 1
       ELSE pc' = "loop_done" /\ idx' = idx

\* lines 256-260: any exception of run_checks is wrapped and raised
Except(e, rule) ==
    /\ pc' = "raised"
    /\ idx' = idx
    /\ error' = [exc |-> "AnsibleModuleError", text |-> e.text, name |-> e.name,
                 tag |-> e.tag, pairs |-> e.pairs,
                 rule |-> rule, wrapped |-> TRUE,
                 last_checked_host |-> last_checked_host',
                 last_checked_var |-> last_checked_var']

\* line 253 and the statement after a rule that returned
Continue(rule) ==
    /\ error' = error
    /\ IF NextRule(rule) # "end_of_run_checks"
       THEN pc' = NextRule(rule) /\ idx' = idx
       ELSE IF idx < Len(check_hosts)
       THEN pc' = "run_checks" /\ idx' = idx + 1
       ELSE pc' = "loop_done" /\ idx' = idx

\* one rule of run_checks, with outcome `out`, on the current host
RuleStep(rule, out) ==
    /\ pc = rule
    /\ TemplateVars(check_hosts[idx], out.looked)
    /\ rules_run' = Append(rules_run, [i |-> idx, rule |-> rule])
    /\ IF out.exc # "none" THEN Except(out, rule) ELSE Continue(rule)
    /\ UNCHANGED <<check_hosts, hostvars, result>>

\* lines 241-250 without the test of check_hosts
ArgsError_NoHostsTest(hosts, hv) ==
    IF DOMAIN hv = {} THEN "{}" ELSE ""

\* lines 241-250: the message of the error for missing arguments, or ""
ArgsError(hosts, hv) ==
    IF Len(hosts) = 0 THEN "check_hosts is required"
    ELSE IF DOMAIN hv = {} THEN "{}"
    ELSE ""

\* lines 226-250
RunStart ==
    /\ pc = "start"
    /\ last_checked_host' = "none"
    /\ last_checked_var' = "none"
    /\ IF ArgsError(check_hosts, hostvars) # ""
       THEN /\ pc' = "raised"
            /\ idx' = idx
            /\ error' = [NoError EXCEPT !.exc = "AnsibleModuleError",
                                        !.text = ArgsError(check_hosts, hostvars)]
       ELSE /\ IF Len(check_hosts) > 0
               THEN pc' = "run_checks" /\ idx' = 1
               ELSE pc' = "loop_done" /\ idx' = idx
            /\ error' = error
    /\ UNCHANGED <<check_hosts, hostvars, distro, odt, lookups, rules_run, result>>

\* line 215: distro = template_var(hostvars, host, 'ansible_distribution');
\* hostvars[host] raises KeyError for a host the inventory does not have
RunChecksBegin ==
    /\ pc = "run_checks"
    /\ LET host == check_hosts[idx]
       IN  /\ TemplateVars(host, <<"ansible_distribution">>)
           /\ IF host \notin DOMAIN hostvars
              THEN /\ Except(Raises("KeyError", host, "", <<>>, <<>>,
                                    <<"ansible_distribution">>), "run_checks")
                   /\ distro' = distro
              ELSE /\ Continue("run_checks")
                   /\ distro' = template_var(hostvars, host, "ansible_distribution")
    /\ UNCHANGED <<check_hosts, hostvars, odt, rules_run, result>>

CheckOpenshiftDeploymentType ==
    /\ RuleStep("check_openshift_deployment_type",
                check_openshift_deployment_type(hostvars, check_hosts[idx]))
    /\ odt' = template_var(hostvars, check_hosts[idx], "openshift_deployment_type")
    /\ UNCHANGED distro

CheckPythonVersion ==
    /\ RuleStep("check_python_version",
                check_python_version(hostvars, check_hosts[idx], distro))
    /\ UNCHANGED <<distro, odt>>

CheckImageTagFormat ==
    /\ RuleStep("check_image_tag_format",
                check_image_tag_format(hostvars, check_hosts[idx], odt))
    /\ UNCHANGED <<distro, odt>>

NetworkPluginCheck ==
    /\ RuleStep("network_plugin_check",
                network_plugin_check(hostvars, check_hosts[idx]))
    /\ UNCHANGED <<distro, odt>>

CheckHostnameVars ==
    /\ RuleStep("check_hostname_vars",
                check_hostname_vars(hostvars, check_hosts[idx]))
    /\ UNCHANGED <<distro, odt>>

CheckSessionAuthSecrets ==
    /\ RuleStep("check_session_auth_secrets",
                check_session_auth_secrets(hostvars, check_hosts[idx]))
    /\ UNCHANGED <<distro, odt>>

CheckUnsupportedNfsConfigs ==
    /\ RuleStep("check_unsupported_nfs_configs",
                check_unsupported_nfs_configs(hostvars, check_hosts[idx]))
    /\ UNCHANGED <<distro, odt>>

CheckHtpasswdProvider ==
    /\ RuleStep("check_htpasswd_provider",
                check_htpasswd_provider(hostvars, check_hosts[idx]))
    /\ UNCHANGED <<distro, odt>>

\* lines 262-266
RunReturn ==
    /\ pc = "loop_done"
    /\ result' = [changed |-> FALSE, failed |-> FALSE, msg |-> "Sanity Checks passed"]
    /\ pc' = "returned"
    /\ UNCHANGED <<check_hosts, hostvars, idx, distro, odt, last_checked_host,
                   last_checked_var, lookups, rules_run, error>>

Next ==
    \/ RunStart
    \/ RunChecksBegin
    \/ CheckOpenshiftDeploymentType
    \/ CheckPythonVersion
    \/ CheckImageTagFormat
    \/ NetworkPluginCheck
    \/ CheckHostnameVars
    \/ CheckSessionAuthSecrets
    \/ CheckUnsupportedNfsConfigs
    \/ CheckHtpasswdProvider
    \/ RunReturn

----------------------------------------------------------------------------
(* Inventories.  Baseline is a host that passes every rule; the            *)
(* specifications below draw the inventory from Baseline with some         *)
(* variables set differently.                                              *)

InventoryHosts == {"h1", "h2"}
UnknownHost == "h3"

Baseline ==
    [v \in AllVars |->
        CASE v = "ansible_distribution" -> PyStr(S_CentOS)
          [] v = "openshift_deployment_type" -> PyStr(S_origin)
          [] v = "ansible_python" -> PyDict(2)
          [] OTHER -> None]

HtpasswdIdp(keys) == [kind |-> "HTPasswdPasswordIdentityProvider", keys |-> keys]

Set(host, var, val) == [host |-> host, var |-> var, val |-> val]

\* the inventory that differs from Baseline in the settings S
Inventory(hosts, S) ==
    [h \in hosts |->
        [v \in AllVars |->
            IF \E o \in S : o.host = h /\ o.var = v
            THEN (CHOOSE o \in S : o.host = h /\ o.var = v).val
            ELSE Baseline[v]]]

Consistent(S) ==
    \A o1, o2 \in S : (o1.host = o2.host /\ o1.var = o2.var) => o1 = o2

\* the sets of at most n settings drawn from `settings`
RECURSIVE SettingSets(_, _)
SettingSets(settings, n) ==
    IF n = 0 THEN {{}}
    ELSE LET prev == SettingSets(settings, n - 1)
         IN  prev \cup {s \cup {o} : s \in prev, o \in settings}

\* the sequences without repetition over S of length at most n
RECURSIVE HostLists(_, _)
HostLists(S, n) ==
    IF n = 0 THEN {<<>>}
    ELSE LET prev == HostLists(S, n - 1)
         IN  prev \cup UNION {{Append(l, h) : h \in S \ Range(l)} : l \in prev}

MaxHosts == 2
MaxSettings == 2

\* one setting per way a rule can pass or fail
RunSettings(h) ==
    {Set(h, "ansible_distribution", PyStr(S_Fedora)),
     Set(h, "openshift_deployment_type", PyStr(S_bogus)),
     Set(h, "openshift_deployment_type", PyStr(S_enterprise)),
     Set(h, "ansible_python", PyDict(3)),
     Set(h, "ansible_python", None),
     Set(h, "openshift_image_tag", PyStr(<<"3", ".", "5">>)),
     Set(h, "openshift_use_flannel", PyBool(TRUE)),
     Set(h, "openshift_hostname", PyStr(Rep(MaxHostnameLen + 1))),
     Set(h, "openshift_master_session_auth_secrets", PyList(<<PyStr(Rep(32))>>)),
     Set(h, "openshift_master_session_encryption_secrets", PyList(<<PyStr(Rep(16))>>)),
     Set(h, "openshift_hosted_registry_storage_kind", PyStr(S_nfs)),
     Set(h, "openshift_enable_unsupported_configurations", PyBool(TRUE)),
     Set(h, "openshift_master_identity_providers",
         Idps(<<HtpasswdIdp({"filename"})>>)),
     Set(h, "openshift_master_manage_htpasswd", PyBool(TRUE))}

RunInventories ==
    {Inventory(InventoryHosts, S) :
        S \in {T \in SettingSets(UNION {RunSettings(h) : h \in InventoryHosts},
                                 MaxSettings) : Consistent(T)}}
    \cup {<<>>}

InitCall ==
    /\ pc = "start"
    /\ idx = 0
    /\ distro = None
    /\ odt = None
    /\ last_checked_host = "undefined"
    /\ last_checked_var = "undefined"
    /\ lookups = <<>>
    /\ rules_run = <<>>
    /\ result = NoResult
    /\ error = NoError

Init ==
    /\ check_hosts \in HostLists(InventoryHosts \cup {UnknownHost}, MaxHosts)
    /\ hostvars \in RunInventories
    /\ InitCall

Spec == Init /\ [][Next]_vars

----------------------------------------------------------------------------
(* Specifications of one rule each: run on the single host h1, whose       *)
(* inventory is Baseline except for the variables the rule reads, drawn    *)
(* from the values below.                                                  *)

S_true == <<"t", "r", "u", "e">>
S_yes == <<"y", "e", "s">>

\* h1 with the variables of DOMAIN f set to f, the others as in Baseline
OneHost(f) ==
    [h \in {"h1"} |->
        [v \in AllVars |-> IF v \in DOMAIN f THEN f[v] ELSE Baseline[v]]]

InitOneHost(inventories) ==
    /\ check_hosts = <<"h1">>
    /\ hostvars \in inventories
    /\ InitCall

\* network_plugin_check
ToggleValues == {None, PyBool(TRUE), PyBool(FALSE), PyStr(S_yes), PyStr(S_false)}

NetVars == {NET_PLUGIN_LIST[i][1] : i \in 1..Len(NET_PLUGIN_LIST)}

InitNet == InitOneHost({OneHost(f) : f \in [NetVars -> ToggleValues]})

SpecNet == InitNet /\ [][Next]_vars

\* check_image_tag_format
MaxTagLen == 6

TagChars == {"v", "3", "5", ".", "-", "a"}

RECURSIVE Strings(_, _)
Strings(chars, n) ==
    IF n = 0 THEN {<<>>}
    ELSE LET prev == Strings(chars, n - 1)
         IN  prev \cup {Append(s, c) : s \in prev, c \in chars}

TagValues == {None, PyStr(S_latest)} \cup {PyStr(s) : s \in Strings(TagChars, MaxTagLen)}

InitTag ==
    InitOneHost({OneHost([v \in {"openshift_image_tag", "openshift_deployment_type"} |->
                             IF v = "openshift_image_tag" THEN tag ELSE PyStr(dt)]) :
                    tag \in TagValues, dt \in Range(VALID_DEPLOYMENT_TYPES)})

SpecTag == InitTag /\ [][Next]_vars

\* check_session_auth_secrets
MaxSecrets == 2

SecretLens == {16, 24, 31, 32, 33}

RECURSIVE SecretLists(_)
SecretLists(n) ==
    IF n = 0 THEN {<<>>}
    ELSE LET prev == SecretLists(n - 1)
         IN  prev \cup {Append(l, PyStr(Rep(k))) : l \in prev, k \in SecretLens}

SecretValues ==
    {None, PyStr(Rep(32))} \cup {PyList(l) : l \in SecretLists(MaxSecrets)}

SecretVars == {"openshift_master_session_auth_secrets",
               "openshift_master_session_encryption_secrets"}

InitSecrets == InitOneHost({OneHost(f) : f \in [SecretVars -> SecretValues]})

SpecSecrets == InitSecrets /\ [][Next]_vars

\* check_unsupported_nfs_configs
EnableValues ==
    {None, PyBool(TRUE), PyBool(FALSE), PyInt(1), PyInt(0), PyStr(S_true), PyStr(S_false)}

KindValues == {None, PyStr(S_nfs), PyStr(S_glusterfs)}

InitNfs ==
    InitOneHost({OneHost([v \in Range(STORAGE_KIND_TUPLE)
                               \cup {"openshift_enable_unsupported_configurations"} |->
                             IF v \in Range(STORAGE_KIND_TUPLE) THEN kinds[v] ELSE enable]) :
                    kinds \in [Range(STORAGE_KIND_TUPLE) -> KindValues],
                    enable \in EnableValues})

SpecNfs == InitNfs /\ [][Next]_vars

\* check_htpasswd_provider
MaxIdps == 2

Providers ==
    [kind : {"HTPasswdPasswordIdentityProvider", "LDAPPasswordIdentityProvider"},
     keys : {{}, {"filename"}, {"file_name"}, {"file", "fileName"}}]

RECURSIVE ProviderLists(_)
ProviderLists(n) ==
    IF n = 0 THEN {<<>>}
    ELSE LET prev == ProviderLists(n - 1)
         IN  prev \cup {Append(l, p) : l \in prev, p \in Providers}

IdpsValues == {None} \cup {Idps(l) : l \in ProviderLists(MaxIdps)}

ManageValues == {None, PyBool(TRUE), PyBool(FALSE), PyInt(1), PyStr(S_yes)}

InitHtpasswd ==
    InitOneHost({OneHost([v \in {"openshift_master_identity_providers",
                                 "openshift_master_manage_htpasswd"} |->
                             IF v = "openshift_master_identity_providers"
                             THEN idps ELSE manage]) :
                    idps \in IdpsValues, manage \in ManageValues})

SpecHtpasswd == InitHtpasswd /\ [][Next]_vars

----------------------------------------------------------------------------
(* Properties *)

\* rule was called for the host at position i of check_hosts
Evaluated(i, rule) ==
    \E k \in 1..Len(rules_run) : rules_run[k] = [i |-> i, rule |-> rule]

\* run raised out of its except clause, the exception coming from `rule`
RaisedAt(rule) == pc = "raised" /\ error.wrapped /\ error.rule = rule

\* run_checks was called for position i and returned
Passed(i) ==
    /\ Evaluated(i, RULES[Len(RULES)])
    /\ ~(pc = "raised" /\ idx = i)

\* the outcome of one rule called on host h by itself
RuleAlone(rule, hv, h) ==
    CASE rule = "check_openshift_deployment_type" ->
            check_openshift_deployment_type(hv, h)
      [] rule = "check_python_version" ->
            check_python_version(hv, h, template_var(hv, h, "ansible_distribution"))
      [] rule = "check_image_tag_format" ->
            check_image_tag_format(hv, h,
                template_var(hv, h, "openshift_deployment_type"))
      [] rule = "network_plugin_check" -> network_plugin_check(hv, h)
      [] rule = "check_hostname_vars" -> check_hostname_vars(hv, h)
      [] rule = "check_session_auth_secrets" -> check_session_auth_secrets(hv, h)
      [] rule = "check_unsupported_nfs_configs" ->
            check_unsupported_nfs_configs(hv, h)
      [] rule = "check_htpasswd_provider" -> check_htpasswd_provider(hv, h)

\* host h violates a rule, or is unknown to the inventory
HostViolates(h) ==
    \/ h \notin DOMAIN hostvars
    \/ \E r \in 1..Len(RULES) : RuleAlone(RULES[r], hostvars, h).exc # "none"

FailingPositions ==
    {i \in 1..Len(check_hosts) : HostViolates(check_hosts[i])}

ArgumentsGiven == Len(check_hosts) > 0 /\ DOMAIN hostvars # {}

PassedResult ==
    [changed |-> FALSE, failed |-> FALSE, msg |-> "Sanity Checks passed"]

\* C1: when some host of check_hosts violates a rule, and i is the first
\* position of such a host, run never looks a variable up nor calls a rule
\* for a position after i, goes on until it raises, which it does only
\* while processing position i, and never reaches its return statement.
C1_AbortsOnFirstFailingHost ==
    LET F == FailingPositions
    IN  (ArgumentsGiven /\ F # {}) =>
            LET first == CHOOSE i \in F : \A j \in F : i <= j
            IN  /\ \A k \in 1..Len(lookups) : lookups[k].i <= first
                /\ \A k \in 1..Len(rules_run) : rules_run[k].i <= first
                /\ idx <= first
                /\ pc = "raised" => (error.wrapped /\ idx = first)
                /\ pc # "raised" => ENABLED Next
                /\ pc \notin {"loop_done", "returned"}
                /\ result = NoResult

\* a run of two hosts that raised on the first, the second never looked at
C1_Witness ==
    /\ Len(check_hosts) = 2
    /\ pc = "raised" /\ error.wrapped /\ idx = 1
    /\ HostViolates(check_hosts[2])
    /\ lookups # <<>>

\* the order of the rules as the claim C2 lists it
C2_Order == <<"check_openshift_deployment_type", "check_python_version",
              "check_image_tag_format", "network_plugin_check",
              "check_hostname_vars", "check_session_auth_secrets",
              "check_unsupported_nfs_configs", "check_htpasswd_provider">>

C2_Violated(i) ==
    {r \in 1..Len(C2_Order) :
        RuleAlone(C2_Order[r], hostvars, check_hosts[i]).exc # "none"}

\* the rules called so far for position i, in the order of the calls
RECURSIVE RulesOf(_, _)
RulesOf(i, run) ==
    IF run = <<>> THEN <<>>
    ELSE IF Head(run).i = i THEN <<Head(run).rule>> \o RulesOf(i, Tail(run))
    ELSE RulesOf(i, Tail(run))

\* C2: the rules called for a host are a prefix of the fixed order; for a
\* host that violates rules, no rule after the earliest violated one is
\* called, and the error raised for the host is that of the earliest
\* violated rule.
C2_FixedOrderShortCircuit ==
    \A i \in 1..Len(check_hosts) :
        check_hosts[i] \in DOMAIN hostvars =>
            LET called == RulesOf(i, rules_run)
                V == C2_Violated(i)
            IN  /\ called = SubSeq(C2_Order, 1, Len(called))
                /\ V # {} =>
                     LET first == CHOOSE r \in V : \A q \in V : r <= q
                     IN  /\ Len(called) <= first
                         /\ (pc = "raised" /\ error.wrapped /\ idx = i) =>
                                /\ error.rule = C2_Order[first]
                                /\ Len(called) = first
                         /\ ~Passed(i)

\* a host that violates two rules, raised at the earlier one
C2_Witness ==
    /\ pc = "raised" /\ error.wrapped
    /\ check_hosts[idx] \in DOMAIN hostvars
    /\ Cardinality(C2_Violated(idx)) >= 2
    /\ error.rule = "network_plugin_check"

\* C3: run ends by returning or by raising; it returns, with changed=false,
\* failed=false and msg "Sanity Checks passed", exactly when check_hosts and
\* hostvars are non-empty and no host of check_hosts violates a rule; when
\* it raises there is no result.
C3_PassedIffAllHostsPass ==
    /\ pc = "returned" =>
          /\ ArgumentsGiven /\ FailingPositions = {}
          /\ result = PassedResult
    /\ pc = "raised" =>
          /\ ~(ArgumentsGiven /\ FailingPositions = {})
          /\ result = NoResult
    /\ pc \notin {"returned", "raised"} =>
          /\ result = NoResult
          /\ ENABLED Next

\* a run of two hosts that returned
C3_Witness ==
    /\ pc = "returned" /\ Len(check_hosts) = 2
    /\ result = PassedResult

\* C6 (as claimed): a host for which run_checks returned has the python
\* major version its distribution requires: 3 on Fedora, 2 elsewhere.
C6_PythonVersionEnforced ==
    \A i \in 1..Len(check_hosts) :
        (Passed(i) /\ check_hosts[i] \in DOMAIN hostvars) =>
            LET bag == hostvars[check_hosts[i]]
            IN  bag["ansible_python"].t = "dict" =>
                    IF IsStr(bag["ansible_distribution"], S_Fedora)
                    THEN bag["ansible_python"].major = 3
                    ELSE bag["ansible_python"].major = 2

\* C10: when run raises out of its except clause while processing the host
\* at position idx, the host in the message is that host and the variable
\* in the message is the one of the latest lookup, made for that host.
C10_DiagnosticContextCurrent ==
    (pc = "raised" /\ error.wrapped) =>
        /\ error.last_checked_host = check_hosts[idx]
        /\ error.last_checked_host # "none"
        /\ \A j \in 1..(idx - 1) :
              check_hosts[j] # check_hosts[idx] =>
                  error.last_checked_host # check_hosts[j]
        /\ lookups # <<>>
        /\ lookups[Len(lookups)].i = idx
        /\ lookups[Len(lookups)].host = check_hosts[idx]
        /\ error.last_checked_var = lookups[Len(lookups)].var

\* the second host is unknown to the inventory; the first one passed
C10_Witness ==
    /\ pc = "raised" /\ error.wrapped /\ idx = 2
    /\ check_hosts[2] \notin DOMAIN hostvars
    /\ check_hosts[1] # check_hosts[2]
    /\ error.last_checked_host = check_hosts[2]
    /\ error.last_checked_var = "ansible_distribution"

\* the inventory of the single host of the one-rule specifications
Bag == hostvars["h1"]

\* the six toggles and their defaults as the claim C4 states them
C4_Toggles == <<"openshift_use_openshift_sdn", "openshift_use_flannel",
                "openshift_use_nuage", "openshift_use_contiv",
                "openshift_use_calico", "openshift_use_kuryr">>

C4_Resolved(i) ==
    IF Bag[C4_Toggles[i]].t = "none" THEN i = 1 ELSE to_bool(Bag[C4_Toggles[i]])

\* C4: network_plugin_check raises exactly when two or more of the six
\* toggles resolve to true, an absent toggle resolving to its declared
\* default (openshift_use_openshift_sdn true, the others false) and a
\* present one to to_bool of its value; the message then carries the host
\* and the six (variable, resolved boolean) pairs in declaration order.
C4_NetworkPluginCheck ==
    Evaluated(1, "network_plugin_check") =>
        /\ RaisedAt("network_plugin_check") <=>
              Cardinality({i \in 1..6 : C4_Resolved(i)}) >= 2
        /\ RaisedAt("network_plugin_check") =>
              /\ error.name = "h1"
              /\ error.pairs = [i \in 1..6 |-> <<C4_Toggles[i], C4_Resolved(i)>>]

\* openshift_use_openshift_sdn absent, so true by default, and another
\* toggle set to "yes"
C4_Witness ==
    /\ RaisedAt("network_plugin_check")
    /\ Bag["openshift_use_openshift_sdn"].t = "none"
    /\ IsStr(Bag["openshift_use_calico"], S_yes)
    /\ Cardinality({i \in 1..6 : C4_Resolved(i)}) = 2

\* C5 (as claimed): check_image_tag_format raises for every image tag that
\* lacks the leading "v", under either deployment type.
C5_TagWithoutVFails ==
    (/\ Evaluated(1, "check_image_tag_format")
     /\ Bag["openshift_image_tag"].t = "str"
     /\ Bag["openshift_image_tag"].c = <<"3", ".", "5">>)
        => RaisedAt("check_image_tag_format")

C7_ListsOk ==
    LET sas == Bag["openshift_master_session_auth_secrets"]
        ses == Bag["openshift_master_session_encryption_secrets"]
    IN  /\ sas.t = "list" /\ ses.t = "list"
        /\ Len(sas.l) = Len(ses.l)
        /\ \A k \in 1..Len(sas.l) : Len(sas.l[k].c) >= 32
        /\ \A k \in 1..Len(ses.l) : Len(ses.l[k].c) \in {16, 24, 32}

C7_BothAbsent ==
    /\ Bag["openshift_master_session_auth_secrets"].t = "none"
    /\ Bag["openshift_master_session_encryption_secrets"].t = "none"

C7_OnePresent ==
    (Bag["openshift_master_session_auth_secrets"].t = "none")
        # (Bag["openshift_master_session_encryption_secrets"].t = "none")

C7_UnequalLists ==
    LET sas == Bag["openshift_master_session_auth_secrets"]
        ses == Bag["openshift_master_session_encryption_secrets"]
    IN  sas.t = "list" /\ ses.t = "list" /\ Len(sas.l) # Len(ses.l)

\* C7: check_session_auth_secrets returns exactly when both variables are
\* absent, or both are lists of equal length with every auth secret of
\* length >= 32 and every encryption secret of length 16, 24 or 32; it
\* raises when exactly one is present, and lists of unequal length raise
\* the equal-length error.
C7_SessionAuthSecrets ==
    Evaluated(1, "check_session_auth_secrets") =>
        /\ ~RaisedAt("check_session_auth_secrets") <=> (C7_BothAbsent \/ C7_ListsOk)
        /\ C7_OnePresent => RaisedAt("check_session_auth_secrets")
        /\ C7_UnequalLists =>
              /\ RaisedAt("check_session_auth_secrets")
              /\ error.text = "Expects openshift_master_session_auth_secrets and openshift_master_session_encryption_secrets are equal length lists"

\* an auth list of two and an encryption list of one, every secret of a
\* valid length: the equal-length error
C7_Witness ==
    /\ RaisedAt("check_session_auth_secrets")
    /\ C7_UnequalLists
    /\ Len(Bag["openshift_master_session_auth_secrets"].l) = 2
    /\ \A k \in 1..2 : Len(Bag["openshift_master_session_auth_secrets"].l[k].c) = 32
    /\ Len(Bag["openshift_master_session_encryption_secrets"].l) = 1
    /\ Len(Bag["openshift_master_session_encryption_secrets"].l[1].c) = 16

C8_Nfs == {i \in 1..7 : Bag[STORAGE_KIND_TUPLE[i]].t = "str"
                        /\ Bag[STORAGE_KIND_TUPLE[i]].c = <<"n", "f", "s">>}

\* C8: check_unsupported_nfs_configs returns when
\* openshift_enable_unsupported_configurations coerces to true; otherwise
\* it raises exactly when one of the seven storage kinds is "nfs", and the
\* error names the first such variable in declaration order.
C8_UnsupportedNfs ==
    Evaluated(1, "check_unsupported_nfs_configs") =>
        IF to_bool(Bag["openshift_enable_unsupported_configurations"])
        THEN ~RaisedAt("check_unsupported_nfs_configs")
        ELSE /\ RaisedAt("check_unsupported_nfs_configs") <=> C8_Nfs # {}
             /\ C8_Nfs # {} =>
                   error.name = STORAGE_KIND_TUPLE[
                       CHOOSE i \in C8_Nfs : \A j \in C8_Nfs : i <= j]

\* the flag is the string "false"; the first kind is not nfs, two later are
C8_Witness ==
    /\ RaisedAt("check_unsupported_nfs_configs")
    /\ IsStr(Bag["openshift_enable_unsupported_configurations"], S_false)
    /\ 1 \notin C8_Nfs
    /\ Cardinality(C8_Nfs) = 2
    /\ error.name = "openshift_logging_storage_kind"

C9_Applies ==
    /\ Evaluated(1, "check_htpasswd_provider")
    /\ Bag["openshift_master_identity_providers"].t = "idps"
    /\ Len(Bag["openshift_master_identity_providers"].p) > 0
    /\ ~to_bool(Bag["openshift_master_manage_htpasswd"])

C9_Htpasswd ==
    LET idps == Bag["openshift_master_identity_providers"].p
    IN  {k \in 1..Len(idps) : idps[k].kind = "HTPasswdPasswordIdentityProvider"}

====
